---- MODULE Spec2Model ----
(***************************************************************************)
(* Model of app.py of the DPD Journals marketing backend: the SQLite store *)
(* (metrics, social_posts, email_campaigns, blog_posts), the periodic      *)
(* dispatcher process_due_items, and the request handlers that the         *)
(* properties below are about.                                             *)
(*                                                                         *)
(* Time is counted in ticks; TicksPerSecond ticks make one second, so that *)
(* the sub-second part of a timestamp, which SQLite's datetime() drops, is *)
(* part of the model.  A row's id (uuid4 in the code) is its position in   *)
(* its table: ids are fresh by construction.  A table variable holds the   *)
(* committed contents of the table, which is what every other connection   *)
(* reads; an UPDATE that its connection has not committed yet is held in   *)
(* cur/lock until the commit inside add_metric.                            *)
(***************************************************************************)
EXTENDS Integers, Sequences, FiniteSets, TLC

VARIABLES clock, social_posts, email_campaigns, metrics, blog_posts,
          pc, now, rows, cur, lock, failed, resp

vars == <<clock, social_posts, email_campaigns, metrics, blog_posts,
          pc, now, rows, cur, lock, failed, resp>>

store == <<social_posts, email_campaigns, metrics, blog_posts>>
sweep == <<pc, now, rows, cur, lock, failed>>

---------------------------------------------------------------------------
(* Bounds *)

TicksPerSecond == 2
MaxClock == 2
MaxItems == 2
MaxTrack == 1
StartDay == 10
MaxSpanDays == 2
MaxSummaryEvents == 2
MaxDays == 3
MaxSlug == 2
MaxText == 2
MaxBlogClock == 1
MaxFeedPosts == 22
MaxFeedClock == 1

---------------------------------------------------------------------------
(* Time *)

SecondsPerDay == 24 * 60 * 60
TicksPerDay == SecondsPerDay * TicksPerSecond

\* the instant the model starts at: midnight of day StartDay
T0 == StartDay * TicksPerDay

\* SQLite datetime(x): the timestamp cut to whole seconds
Datetime(t) == t \div TicksPerSecond

\* SQLite date(x), and ts[:10] of an ISO timestamp: the calendar day
Date(t) == t \div TicksPerDay

NULL == <<>>

\* the two server processes that may run a scheduler on the same database
Procs == {1, 2}

---------------------------------------------------------------------------
(* Rows *)

\* variant: the INSERT writes another status word
NewItemBadStatus(at) == [scheduled_at |-> at, status |-> "pending", sent_at |-> NULL]

\* INSERT INTO social_posts / email_campaigns (..., scheduled_at, status)
\* VALUES (..., 'scheduled'); sent_at is left NULL
NewItem(at) == [scheduled_at |-> at, status |-> "scheduled", sent_at |-> NULL]

\* UPDATE ... SET status='sent', sent_at=? WHERE id=?
MarkSent(r, t) == [r EXCEPT !.status = "sent", !.sent_at = <<t>>]

\* the row add_metric inserts; item names the loop row the call was made
\* for (<<>> for a tracking hit), it is not a stored column
Event(ts, medium, item) == [ts |-> ts, medium |-> medium, item |-> item]

\* variant: the query without its status filter
DueAnyStatus(r, t) == Datetime(r.scheduled_at) <= Datetime(t)

\* WHERE status='scheduled' AND datetime(scheduled_at) <= datetime(?)
Due(r, t) == r.status = "scheduled" /\ Datetime(r.scheduled_at) <= Datetime(t)

\* cur.fetchall() of the query above, as the set of the ids of its rows
DueIds(table, t) == {i \in DOMAIN table : Due(table[i], t)}

\* the instants a client can ask for
SchedTimes == T0 .. (T0 + MaxClock)

---------------------------------------------------------------------------
Init ==
    /\ clock = T0
    /\ social_posts = <<>>
    /\ email_campaigns = <<>>
    /\ metrics = <<>>
    /\ blog_posts = <<>>
    /\ pc = [p \in Procs |-> "idle"]
    /\ now = [p \in Procs |-> T0]
    /\ rows = [p \in Procs |-> {}]
    /\ cur = [p \in Procs |-> 0]
    /\ lock = 0
    /\ failed = [p \in Procs |-> [item |-> <<>>, at |-> "none"]]
    /\ resp = [op |-> "none"]

\* datetime.utcnow() moves on by d ticks
Advance(d, limit) ==
    /\ clock + d <= limit
    /\ clock' = clock + d
    /\ UNCHANGED <<store, sweep, resp>>

schedule_social(at) ==
    /\ Len(social_posts) + Len(email_campaigns) < MaxItems
    /\ lock = 0
    /\ social_posts' = Append(social_posts, NewItem(at))
    /\ resp' = [op |-> "schedule_social", ok |-> TRUE]
    /\ UNCHANGED <<clock, email_campaigns, metrics, blog_posts, sweep>>

schedule_email(at) ==
    /\ Len(social_posts) + Len(email_campaigns) < MaxItems
    /\ lock = 0
    /\ email_campaigns' = Append(email_campaigns, NewItem(at))
    /\ resp' = [op |-> "schedule_email", ok |-> TRUE]
    /\ UNCHANGED <<clock, social_posts, metrics, blog_posts, sweep>>

---------------------------------------------------------------------------
(* process_due_items, one step per statement that touches the store *)

\* now = datetime.utcnow(); SELECT the due social posts; fetchall()
SweepBegin(p) ==
    /\ pc[p] = "idle"
    /\ now' = [now EXCEPT ![p] = clock]
    /\ rows' = [rows EXCEPT ![p] = DueIds(social_posts, clock)]
    /\ pc' = [pc EXCEPT ![p] = "social_loop"]
    /\ UNCHANGED <<clock, store, cur, lock, failed, resp>>

\* variant: the UPDATE is committed on its own (an autocommit connection)
UpdateSocialAutocommit(p, i) ==
    /\ pc[p] = "social_loop"
    /\ i \in rows[p]
    /\ lock = 0
    /\ social_posts' = [social_posts EXCEPT ![i] = MarkSent(@, now[p])]
    /\ cur' = [cur EXCEPT ![p] = i]
    /\ pc' = [pc EXCEPT ![p] = "social_metric"]
    /\ UNCHANGED <<clock, email_campaigns, metrics, blog_posts, now, rows,
                   lock, failed, resp>>

\* UPDATE social_posts ... WHERE id=row[0]: opens the connection's
\* transaction and takes the database's write lock
UpdateSocial(p, i) ==
    /\ pc[p] = "social_loop"
    /\ i \in rows[p]
    /\ lock = 0
    /\ lock' = p
    /\ cur' = [cur EXCEPT ![p] = i]
    /\ pc' = [pc EXCEPT ![p] = "social_metric"]
    /\ UNCHANGED <<clock, store, now, rows, failed, resp>>

\* add_metric(conn, ts=now, medium="social", ...): INSERT, then
\* conn.commit(), which commits the UPDATE of the same connection with it
MetricSocial(p) ==
    /\ pc[p] = "social_metric"
    /\ social_posts' = [social_posts EXCEPT ![cur[p]] = MarkSent(@, now[p])]
    /\ metrics' = Append(metrics, Event(now[p], "social", <<"social", cur[p]>>))
    /\ rows' = [rows EXCEPT ![p] = @ \ {cur[p]}]
    /\ cur' = [cur EXCEPT ![p] = 0]
    /\ lock' = 0
    /\ pc' = [pc EXCEPT ![p] = "social_loop"]
    /\ UNCHANGED <<clock, email_campaigns, blog_posts, now, failed, resp>>

\* variant: the email query is left out, the sweep ends after the posts
SelectEmailSkipped(p) ==
    /\ pc[p] = "social_loop"
    /\ rows[p] = {}
    /\ pc' = [pc EXCEPT ![p] = "email_loop"]
    /\ UNCHANGED <<clock, store, now, rows, cur, lock, failed, resp>>

\* the social loop is over: SELECT the due email campaigns; fetchall()
SelectEmail(p) ==
    /\ pc[p] = "social_loop"
    /\ rows[p] = {}
    /\ rows' = [rows EXCEPT ![p] = DueIds(email_campaigns, now[p])]
    /\ pc' = [pc EXCEPT ![p] = "email_loop"]
    /\ UNCHANGED <<clock, store, now, cur, lock, failed, resp>>

UpdateEmail(p, i) ==
    /\ pc[p] = "email_loop"
    /\ i \in rows[p]
    /\ lock = 0
    /\ lock' = p
    /\ cur' = [cur EXCEPT ![p] = i]
    /\ pc' = [pc EXCEPT ![p] = "email_metric"]
    /\ UNCHANGED <<clock, store, now, rows, failed, resp>>

MetricEmail(p) ==
    /\ pc[p] = "email_metric"
    /\ email_campaigns' = [email_campaigns EXCEPT ![cur[p]] = MarkSent(@, now[p])]
    /\ metrics' = Append(metrics, Event(now[p], "email", <<"email", cur[p]>>))
    /\ rows' = [rows EXCEPT ![p] = @ \ {cur[p]}]
    /\ cur' = [cur EXCEPT ![p] = 0]
    /\ lock' = 0
    /\ pc' = [pc EXCEPT ![p] = "email_loop"]
    /\ UNCHANGED <<clock, social_posts, blog_posts, now, failed, resp>>

\* conn.commit(); conn.close()
SweepEnd(p) ==
    /\ pc[p] = "email_loop"
    /\ rows[p] = {}
    /\ pc' = [pc EXCEPT ![p] = "idle"]
    /\ UNCHANGED <<clock, store, now, rows, cur, lock, failed, resp>>

process_due_items(p) ==
    \/ SweepBegin(p)
    \/ \E i \in rows[p] : UpdateSocial(p, i)
    \/ MetricSocial(p)
    \/ SelectEmail(p)
    \/ \E i \in rows[p] : UpdateEmail(p, i)
    \/ MetricEmail(p)
    \/ SweepEnd(p)

---------------------------------------------------------------------------
(* track *)

TrackHits == Cardinality({k \in DOMAIN metrics : metrics[k].medium = "track"})

\* add_metric(conn, source=utm_source, ...) with ts defaulted to now_iso(),
\* then Response(content=GIF_BYTES, media_type="image/gif")
track(limit) ==
    /\ TrackHits < limit
    /\ lock = 0
    /\ metrics' = Append(metrics, Event(clock, "track", <<>>))
    /\ resp' = [op |-> "track", status |-> 200, body |-> "GIF_BYTES"]
    /\ UNCHANGED <<clock, social_posts, email_campaigns, blog_posts, sweep>>

---------------------------------------------------------------------------
(* The dispatcher of one server process, with the requests around it *)

Requests ==
    \/ \E at \in SchedTimes : schedule_social(at)
    \/ \E at \in SchedTimes : schedule_email(at)

Tick == Advance(1, T0 + MaxClock)

Next ==
    \/ Tick
    \/ Requests
    \/ process_due_items(1)

Spec == Init /\ [][Next]_vars

\* IntervalTrigger(seconds=30) starts process_due_items again and again and
\* a started sweep runs on to its end; the clock moves on
SpecLive ==
    /\ Init
    /\ [][Next]_vars
    /\ WF_vars(Tick)
    /\ WF_vars(process_due_items(1))

---------------------------------------------------------------------------
(* Write failures.  Nothing in process_due_items or track catches an       *)
(* exception, so a statement that raises ends the handler there.  The      *)
(* sweep's connection is then never closed: it keeps its open transaction  *)
(* and the write lock until the garbage collector finalises it, which      *)
(* rolls the transaction back.                                             *)

\* the table the sweep of p is going, or was going, through
KindOf(p) ==
    IF \/ pc[p] \in {"social_loop", "social_metric"}
       \/ pc[p] = "aborted" /\ failed[p].item[1] = "social"
    THEN "social" ELSE "email"

\* cur.execute("UPDATE ...") raises (sqlite3.OperationalError)
UpdateFails(p, i) ==
    /\ pc[p] \in {"social_loop", "email_loop"}
    /\ i \in rows[p]
    /\ failed' = [failed EXCEPT ![p] = [item |-> <<KindOf(p), i>>, at |-> "update"]]
    /\ pc' = [pc EXCEPT ![p] = "aborted"]
    /\ UNCHANGED <<clock, store, now, rows, cur, lock, resp>>

\* the INSERT or the commit inside add_metric raises, or the process is
\* stopped before it: the UPDATE stays uncommitted
MetricFails(p) ==
    /\ pc[p] \in {"social_metric", "email_metric"}
    /\ failed' = [failed EXCEPT ![p] = [item |-> <<KindOf(p), cur[p]>>, at |-> "metric"]]
    /\ pc' = [pc EXCEPT ![p] = "aborted"]
    /\ UNCHANGED <<clock, store, now, rows, cur, lock, resp>>

\* the abandoned connection is finalised: rollback, lock released
SweepAbort(p) ==
    /\ pc[p] = "aborted"
    /\ lock' = IF lock = p THEN 0 ELSE lock
    /\ cur' = [cur EXCEPT ![p] = 0]
    /\ rows' = [rows EXCEPT ![p] = {}]
    /\ pc' = [pc EXCEPT ![p] = "idle"]
    /\ UNCHANGED <<clock, store, now, failed, resp>>

\* add_metric raises inside track: the framework answers 500
TrackFails ==
    /\ resp' = [op |-> "track", status |-> 500, body |-> "Internal Server Error"]
    /\ UNCHANGED <<clock, store, sweep>>

NextFail ==
    \/ Tick
    \/ Requests
    \/ process_due_items(1)
    \/ \E i \in rows[1] : UpdateFails(1, i)
    \/ MetricFails(1)
    \/ SweepAbort(1)

SpecFail == Init /\ [][NextFail]_vars

---------------------------------------------------------------------------
(* Two server processes, each with its own scheduler, on one database *)

NextTrack ==
    \/ Next
    \/ track(MaxTrack)
    \/ TrackFails

SpecTrack == Init /\ [][NextTrack]_vars

NextOverlap ==
    \/ Tick
    \/ Requests
    \/ \E p \in Procs : process_due_items(p)

SpecOverlap == Init /\ [][NextOverlap]_vars

---------------------------------------------------------------------------
(* Blog posts *)

\* variant: no uniqueness check
SlugNeverUsed(slug) == FALSE

\* blog_posts.slug is UNIQUE: the INSERT raises sqlite3.IntegrityError
SlugUsed(slug) == \E k \in DOMAIN blog_posts : blog_posts[k].slug = slug

\* the request's title and body are drawn together as one text
create_blog(slug, text) ==
    /\ IF SlugUsed(slug)
       THEN /\ resp' = [op |-> "create_blog", slug |-> slug, title |-> text,
                        ok |-> FALSE, message |-> "Slug already exists"]
            /\ UNCHANGED blog_posts
       ELSE /\ blog_posts' = Append(blog_posts,
                    [id |-> Len(blog_posts) + 1, slug |-> slug,
                     title |-> text, body |-> text,
                     created_at |-> clock, updated_at |-> clock])
            /\ resp' = [op |-> "create_blog", slug |-> slug, title |-> text,
                        ok |-> TRUE, message |-> "Published"]
    /\ UNCHANGED <<clock, social_posts, email_campaigns, metrics, sweep>>

NextBlog ==
    \/ Advance(1, T0 + MaxBlogClock)
    \/ \E slug \in 1..MaxSlug, text \in 1..MaxText : create_blog(slug, text)

SpecBlog == Init /\ [][NextBlog]_vars

---------------------------------------------------------------------------
(* Feeds *)

RssLimit == 20

Min(a, b) == IF a < b THEN a ELSE b

\* ORDER BY updated_at DESC over the first n rows of the table; rows with
\* one updated_at come in the order of their insertion
RECURSIVE OrderByUpdatedDesc(_)
OrderByUpdatedDesc(n) ==
    IF n = 0 THEN <<>>
    ELSE LET sorted == OrderByUpdatedDesc(n - 1)
             r == blog_posts[n]
             before == Cardinality({j \in DOMAIN sorted :
                                       sorted[j].updated_at >= r.updated_at})
         IN  SubSeq(sorted, 1, before) \o <<r>>
                 \o SubSeq(sorted, before + 1, Len(sorted))

\* variant: the query without LIMIT
LimitNone(seq, n) == seq

\* LIMIT n
Limit(seq, n) == SubSeq(seq, 1, Min(n, Len(seq)))

\* one <url> per row of SELECT slug, updated_at ... ORDER BY updated_at DESC
sitemap ==
    /\ LET fetched == OrderByUpdatedDesc(Len(blog_posts))
       IN  resp' = [op |-> "sitemap",
                    urls |-> [k \in 1..Len(fetched) |->
                                 [loc |-> fetched[k].slug,
                                  lastmod |-> fetched[k].updated_at]]]
    /\ UNCHANGED <<clock, store, sweep>>

\* one <item> per row of SELECT ... ORDER BY updated_at DESC LIMIT 20
rss ==
    /\ LET fetched == Limit(OrderByUpdatedDesc(Len(blog_posts)), RssLimit)
       IN  resp' = [op |-> "rss",
                    items |-> [k \in 1..Len(fetched) |->
                                  [link |-> fetched[k].slug,
                                   title |-> fetched[k].title]]]
    /\ UNCHANGED <<clock, store, sweep>>

\* slugs are opaque: a request names the newest stored slug or the least
\* unused one
FeedSlugs == {Len(blog_posts), Len(blog_posts) + 1} \cap (1..MaxFeedPosts)

NextFeed ==
    \/ Advance(1, T0 + MaxFeedClock)
    \/ \E slug \in FeedSlugs : create_blog(slug, 1)
    \/ sitemap
    \/ rss

SpecFeed == Init /\ [][NextFeed]_vars

---------------------------------------------------------------------------
(* Traffic summary *)

\* date.isoformat(): fixed width, zero padded; the model's days have two digits
IsoDate(d) == <<d \div 10, d % 10>>

\* comparison of two ISO dates as strings
StrLess(a, b) == a[1] < b[1] \/ (a[1] = b[1] /\ a[2] < b[2])

\* sorted(buckets.keys())
RECURSIVE SortedKeys(_)
SortedKeys(S) ==
    IF S = {} THEN <<>>
    ELSE LET m == CHOOSE x \in S : \A y \in S \ {x} : StrLess(x, y)
         IN  <<m>> \o SortedKeys(S \ {m})

\* variant: timedelta(days=days)
WindowStartOffByOne(today, days) == today - days

\* start = (datetime.utcnow() - timedelta(days=days-1)).date()
WindowStart(today, days) == today - (days - 1)

\* the keys of buckets: (start + timedelta(days=i)).isoformat(), i in range(days)
BucketKeys(start, days) == {IsoDate(start + i) : i \in 0..(days - 1)}

\* SELECT ts FROM metrics WHERE date(ts) >= date(start)
SummaryRows(start) == {k \in DOMAIN metrics : Date(metrics[k].ts) >= start}

\* the rows with ts[:10] equal to the key
BucketCount(key, fetched) ==
    Cardinality({k \in fetched : IsoDate(Date(metrics[k].ts)) = key})

metrics_summary(days) ==
    /\ LET start == WindowStart(Date(clock), days)
           fetched == SummaryRows(start)
           keys == SortedKeys(BucketKeys(start, days))
       IN  resp' = [op |-> "summary", days |-> days,
                    body |-> [k \in 1..Len(keys) |->
                                 [date |-> keys[k],
                                  count |-> BucketCount(keys[k], fetched)]]]
    /\ UNCHANGED <<clock, store, sweep>>

\* the instants the summary clock visits: the first and second tick of a
\* day and its last tick
SummaryStep ==
    IF clock % TicksPerDay = 0 THEN 1
    ELSE IF clock % TicksPerDay = 1 THEN TicksPerDay - 2
    ELSE 1

NextSummary ==
    \/ Advance(SummaryStep, T0 + MaxSpanDays * TicksPerDay)
    \/ track(MaxSummaryEvents)
    \/ \E days \in (0 - 1)..MaxDays : metrics_summary(days)

SpecSummary == Init /\ [][NextSummary]_vars

---------------------------------------------------------------------------
(* Properties of the dispatcher *)

Items == {<<"social", i>> : i \in DOMAIN social_posts}
             \cup {<<"email", i>> : i \in DOMAIN email_campaigns}

Row(it) == IF it[1] = "social" THEN social_posts[it[2]] ELSE email_campaigns[it[2]]

\* the Events that sweeps have appended for the item
EventsFor(it) == {k \in DOMAIN metrics : metrics[k].item = it}

\* the rows the sweep of p has fetched and not yet gone through
Fetched(p) == {<<KindOf(p), i>> : i \in rows[p]}

C1_State ==
    \A it \in Items :
        /\ Cardinality(EventsFor(it)) <= 1
        /\ Row(it).status = "sent" <=> Cardinality(EventsFor(it)) = 1
        /\ \A k \in EventsFor(it) : Row(it).sent_at = <<metrics[k].ts>>

C1_Step ==
    /\ \A it \in Items :
        /\ (Row(it).status = "scheduled" /\ Row(it)'.status = "sent")
              => /\ Row(it)'.sent_at = <<now[1]>>
                 /\ Cardinality(EventsFor(it)') = Cardinality(EventsFor(it)) + 1
                 /\ metrics'[Len(metrics')] = Event(now[1], it[1], it)
        /\ Row(it).status = "sent"
              => Row(it)' = Row(it) /\ EventsFor(it)' = EventsFor(it)
        /\ Row(it)'.status = "scheduled" => EventsFor(it)' = {}
    \* the sweep's query returns every scheduled item that is due at its now
    /\ (pc[1] = "idle" /\ pc'[1] = "social_loop")
          => \A i \in DOMAIN social_posts :
                (social_posts[i].status = "scheduled"
                    /\ social_posts[i].scheduled_at <= now'[1]) => i \in rows'[1]
    /\ (pc[1] = "social_loop" /\ pc'[1] = "email_loop")
          => \A i \in DOMAIN email_campaigns :
                (email_campaigns[i].status = "scheduled"
                    /\ email_campaigns[i].scheduled_at <= now[1]) => i \in rows'[1]
    \* a fetched row leaves the sweep's list only by being sent, and the
    \* sweep goes on to the next query or ends only with its list empty
    /\ \A it \in Fetched(1) : it \notin Fetched(1)' => Row(it)'.status = "sent"
    /\ (<<pc[1], pc'[1]>> \in {<<"social_loop", "email_loop">>, <<"email_loop", "idle">>})
          => rows[1] = {}

\* C1: an item that is scheduled and due at a sweep's now is sent by exactly
\* one of the sweeps run one after another: that sweep fetches it, stamps
\* sent_at with its one snapshot of now and appends exactly one Event for
\* it; no later step changes the item or adds an Event for it.
C1_DispatchedExactlyOnce == [](C1_State) /\ [][C1_Step]_vars

\* a later sweep has run to its end over an item that an earlier sweep sent
C1_Witness ==
    /\ pc[1] = "idle"
    /\ \E it \in Items :
          /\ Row(it).status = "sent"
          /\ Row(it).sent_at # <<now[1]>>
          /\ Row(it).scheduled_at <= Row(it).sent_at[1]
          /\ Cardinality(EventsFor(it)) = 1

\* C2: while a sweep runs, an item whose scheduled_at is strictly later
\* than the sweep's now stays as it is: scheduled, sent_at null, no Event.
C2_FutureItemUntouched ==
    [][\A it \in Items :
          (pc[1] # "idle" /\ Row(it).status = "scheduled"
              /\ Row(it).scheduled_at > now[1])
            => /\ Row(it)' = Row(it)
               /\ EventsFor(it)' = EventsFor(it)]_vars

C3_State ==
    \A it \in Items : Row(it).status \in {"scheduled", "sent"}

C3_Step ==
    /\ \A it \in Items' \ Items :
          (IF it[1] = "social" THEN social_posts'[it[2]]
                               ELSE email_campaigns'[it[2]]).status = "scheduled"
    /\ \A it \in Items :
          \/ Row(it)'.status = Row(it).status
          \/ Row(it).status = "scheduled" /\ Row(it)'.status = "sent"

\* C3: the status of every social post and email campaign is scheduled or
\* sent; an item is created scheduled; the only change of status any step
\* makes is scheduled -> sent, so a sent item never returns to scheduled.
C3_StatusMonotonic == [](C3_State) /\ [][C3_Step]_vars

\* items of both kinds exist, one sent and one still scheduled
C3_Witness ==
    /\ \E it \in Items : Row(it).status = "sent"
    /\ \E it \in Items : Row(it).status = "scheduled"
    /\ Len(social_posts) > 0 /\ Len(email_campaigns) > 0

\* C6: track answers with the 1x1 GIF whether or not add_metric succeeded.
C6_TrackAlwaysGif ==
    resp.op = "track" => resp.status = 200 /\ resp.body = "GIF_BYTES"

\* C8: in every committed state, also after the Event append has failed or
\* the sweep was stopped between its two writes, an item is sent if and
\* only if exactly one dispatch Event for it exists, and no item ever has
\* a second one.
C8_SentIffOneEvent ==
    \A it \in Items :
        /\ Cardinality(EventsFor(it)) <= 1
        /\ Row(it).status = "sent" <=> EventsFor(it) # {}
        /\ Row(it).status = "scheduled" <=> Row(it).sent_at = NULL

\* the Event append for an item failed, and a later sweep has sent the item
C8_Witness ==
    /\ failed[1].at = "metric"
    /\ pc[1] # "aborted"
    /\ Row(failed[1].item).status = "sent"
    /\ Cardinality(EventsFor(failed[1].item)) = 1

\* the UPDATE of an item is pending when its Event append fails
C8_WitnessPending ==
    /\ pc[1] = "aborted"
    /\ failed[1].at = "metric"
    /\ lock = 1
    /\ Row(failed[1].item).status = "scheduled"

\* C9: when one due item fails, the sweep has still sent every other due
\* item, of both kinds, by the time it ends.
C9_FailureIsolated ==
    pc[1] = "aborted"
        => /\ \A it \in Fetched(1) : it = failed[1].item
           /\ failed[1].item[1] = "social"
                 => DueIds(email_campaigns, now[1]) = {}

\* C10: with overlapping sweeps an item is still promoted once: it gets
\* exactly one Event and its sent_at, once written, is not overwritten.
C10_OverlapPromotesOnce ==
    /\ [](\A it \in Items : Cardinality(EventsFor(it)) <= 1)
    /\ [][\A it \in Items :
             Row(it).status = "sent" => Row(it)'.sent_at = Row(it).sent_at]_vars

---------------------------------------------------------------------------
(* Properties of the blog, the feeds and the summary *)

C4_State ==
    \A j, k \in DOMAIN blog_posts :
        blog_posts[j].slug = blog_posts[k].slug => j = k

C4_Step ==
    /\ blog_posts' # blog_posts => resp'.op = "create_blog" /\ resp'.ok
    /\ (resp'.op = "create_blog" /\ (resp' # resp \/ blog_posts' # blog_posts))
          => IF \E k \in DOMAIN blog_posts : blog_posts[k].slug = resp'.slug
             THEN /\ ~resp'.ok
                  /\ resp'.message = "Slug already exists"
                  /\ blog_posts' = blog_posts
             ELSE /\ resp'.ok
                  /\ Len(blog_posts') = Len(blog_posts) + 1
                  /\ SubSeq(blog_posts', 1, Len(blog_posts)) = blog_posts
                  /\ blog_posts'[Len(blog_posts')].slug = resp'.slug
                  /\ blog_posts'[Len(blog_posts')].title = resp'.title
                  /\ blog_posts'[Len(blog_posts')].created_at = clock
                  /\ blog_posts'[Len(blog_posts')].updated_at = clock

\* C4: a create-blog request with an unused slug succeeds and adds one
\* post; one with a used slug fails as a duplicate, adds nothing and leaves
\* the stored posts as they are; no two stored posts share a slug.
C4_SlugUnique == [](C4_State) /\ [][C4_Step]_vars

\* a duplicate request with another text was refused after time moved on
C4_Witness ==
    /\ resp.op = "create_blog" /\ ~resp.ok
    /\ \E k \in DOMAIN blog_posts :
          /\ blog_posts[k].slug = resp.slug
          /\ blog_posts[k].title # resp.title
          /\ blog_posts[k].created_at < clock
    /\ Len(blog_posts) > 1

\* what the summary of N days has to be, asked at the clock's instant
SummaryOf(r, N) ==
    LET today == Date(clock)
        OnDay(d) == {k \in DOMAIN metrics : Date(metrics[k].ts) = d}
    IN  /\ Len(r.body) = N
        /\ \A k \in 1..N :
              /\ r.body[k].date = IsoDate(today - (N - k))
              /\ r.body[k].count = Cardinality(OnDay(today - (N - k)))
        /\ \A k \in 1..(N - 1) : StrLess(r.body[k].date, r.body[k + 1].date)

C7_FeedCounts ==
    /\ resp.op = "rss"
          => /\ Len(resp.items) <= 20
             /\ Len(resp.items) = (IF Len(blog_posts) < 20 THEN Len(blog_posts) ELSE 20)
    /\ resp.op = "sitemap"
          => /\ Len(resp.urls) = Len(blog_posts)
             /\ \A k \in DOMAIN blog_posts :
                   Cardinality({j \in DOMAIN resp.urls :
                                   resp.urls[j].loc = blog_posts[k].slug}) = 1

\* more than 20 posts are stored and the feed has 20 items
C7_Witness ==
    /\ resp.op = "rss"
    /\ Len(blog_posts) > 20
    /\ Len(resp.items) = 20

---------------------------------------------------------------------------
(* Liveness of the dispatcher *)

\* C11: while the periodic sweep keeps running, time moves on and writes
\* succeed, every social post and email campaign that is ever scheduled,
\* also one inserted while a sweep is in progress, is sent in the end:
\* after every instant an instant comes at which every item stored by
\* then is sent (items are never removed and a sent item stays sent, so
\* this holds of each item from its insertion on).
C11_EveryItemSent == []<>(\A it \in Items : Row(it).status = "sent")

\* a due post is waiting that came in after the running sweep's query for
\* the posts: the sweep is already at the email campaigns
C11_Witness ==
    /\ pc[1] \in {"email_loop", "email_metric"}
    /\ \E i \in DOMAIN social_posts : Due(social_posts[i], now[1])

====
